---- MODULE Spec2Model ----
(***************************************************************************)
(* The chess-calendar data layer: the calendar_events table with soft      *)
(* delete, the list/filter queries of the admin API and of calendar-api,   *)
(* the create/update/delete/restore handlers, duplicate detection and      *)
(* clean-up, and the backup manager (createBackup / restoreFromBackup)     *)
(* of the admin API.                                                       *)
(*                                                                         *)
(* Text values are sequences of one-character strings, so that LOWER,      *)
(* LIKE and trim are computed and not assumed.  Timestamps are small       *)
(* naturals; NULL is the SQL NULL of a timestamp column.                   *)
(***************************************************************************)
EXTENDS Integers, Sequences, FiniteSets, Bags, TLC

VARIABLES
    rows,      \* calendar_events of the live database file (a set of records)
    seq,       \* sqlite_sequence of calendar_events (AUTOINCREMENT high-water mark)
    handle,    \* the module-level db handle: "open", "closed", or "down" (process gone)
    files,     \* the backups directory: name -> [snap, meta]
    snaps,     \* names whose db.backup() promise is still pending
    calls,     \* async handlers suspended in createBackup's 100 ms wait
    names,     \* number of backup names handed out (the millisecond timestamp)
    now,       \* the server clock, in seconds
    res,       \* the last response sent, with the operation it answers
    turns,     \* requests served since the oldest unfinished createBackup began
    seen,      \* history: per backup name, the store contents seen while createBackup ran
    issued,    \* history: the ids that successful POST /api/events requests returned
    runs,      \* the `node export-all-categories.js` processes in flight (a bag)
    exported   \* events.json: the rows of the all-events export

vars == <<rows, seq, handle, files, snaps, calls, names, now, res, turns, seen, issued, runs, exported>>

(***************************************************************************)
(* Bounds of the model.                                                    *)
(***************************************************************************)
MaxId == 2          \* rows ever inserted, in Spec
MaxTime == 2        \* seconds on the clock
MaxEvents == 2      \* rows ever inserted, in SpecStore and SpecBackup
MaxTable == 3       \* rows of the table SpecDedupe starts from
MaxCreated == 2     \* rows ever inserted, in SpecCreate
MaxRows == 4        \* the largest LIMIT of a list request, in SpecQuery
MaxDedupes == 1     \* createBackup calls, in SpecStore and SpecDedupe
MaxBackups == 2     \* createBackup calls, in SpecBackup
MaxCalls == 1       \* handlers suspended in createBackup at one time
MaxTurns == 1       \* requests served while a createBackup is unfinished
MaxStored == 1      \* events created beside the backups directory
MaxRuns == 1        \* export processes that have not read the database yet
MaxInFlight == 2    \* export processes in flight

NULL == 0
NoFile == [absent |-> TRUE]

\* a sidecar that JSON.parse rejects: fs.writeFileSync threw after opening it
Corrupt == [corrupt |-> TRUE]
None == [none |-> TRUE]

(***************************************************************************)
(* Text.                                                                   *)
(***************************************************************************)
LowerChar(c) ==
    CASE c = "A" -> "a"
      [] c = "B" -> "b"
      [] c = "P" -> "p"
      [] c = "Q" -> "q"
      [] c = "Y" -> "y"
      [] OTHER -> c

\* SQLite LOWER(): ASCII letters are folded, every other character is kept.
LOWER(s) == [i \in 1..Len(s) |-> LowerChar(s[i])]

RECURSIVE LikeFrom(_, _, _, _)
\* SQLite's LIKE: % matches any run of characters, _ matches one character,
\* any other character matches itself without regard to ASCII case.
LikeFrom(p, i, t, j) ==
    IF i > Len(p) THEN j > Len(t)
    ELSE IF p[i] = "%"
         THEN LikeFrom(p, i + 1, t, j) \/ (j <= Len(t) /\ LikeFrom(p, i, t, j + 1))
    ELSE IF j > Len(t) THEN FALSE
    ELSE IF p[i] = "_" THEN LikeFrom(p, i + 1, t, j + 1)
    ELSE LowerChar(p[i]) = LowerChar(t[j]) /\ LikeFrom(p, i + 1, t, j + 1)

LIKE(t, p) == LikeFrom(p, 1, t, 1)

RECURSIVE TrimLeft(_)
TrimLeft(s) == IF s # <<>> /\ Head(s) = " " THEN TrimLeft(Tail(s)) ELSE s

RECURSIVE TrimRight(_)
TrimRight(s) ==
    IF s # <<>> /\ s[Len(s)] = " " THEN TrimRight(SubSeq(s, 1, Len(s) - 1)) ELSE s

\* String.prototype.trim
Trim(s) == TrimRight(TrimLeft(s))

(***************************************************************************)
(* new URL(url) with no base.  A url is a sequence of tokens: "http" is a  *)
(* special scheme, "x" a run of other letters, "//" two slashes.           *)
(***************************************************************************)
Letters == {"http", "x"}

RECURSIVE SchemeLen(_)
SchemeLen(u) == IF u # <<>> /\ Head(u) \in Letters THEN 1 + SchemeLen(Tail(u)) ELSE 0

RECURSIVE SkipSlashes(_)
SkipSlashes(u) == IF u # <<>> /\ Head(u) = "//" THEN SkipSlashes(Tail(u)) ELSE u

\* TRUE when the URL parser accepts u, FALSE when it throws TypeError.
UrlParses(url) ==
    LET u == Trim(url)
        n == SchemeLen(u)
    IN  /\ n >= 1
        /\ Len(u) > n
        /\ u[n + 1] = ":"
        /\ LET rest == SubSeq(u, n + 2, Len(u))
           IN  IF SubSeq(u, 1, n) = <<"http">>
               THEN LET host == SkipSlashes(rest)
                    IN  /\ host # <<>>
                        /\ \A i \in 1..Len(host) : host[i] \in Letters
               ELSE IF rest # <<>> /\ Head(rest) = "//"
                    THEN \A i \in 2..Len(rest) : rest[i] # " "
                    ELSE TRUE

(***************************************************************************)
(* The table.                                                              *)
(***************************************************************************)
Active(t) == {r \in t : r.deleted_at = NULL}

Has(body, f) == f \in DOMAIN body

\* body.f || d for a text field: undefined and '' both give d
TextOr(body, f, d) == IF Has(body, f) /\ body[f] # <<>> THEN body[f] ELSE d

\* a faulty variant: body.f, with no default
TimeOrNull(body, f, d) == IF Has(body, f) THEN body[f] ELSE NULL

\* body.f || d for a timestamp field
TimeOr(body, f, d) == IF Has(body, f) THEN body[f] ELSE d

(***************************************************************************)
(* SQL of the list endpoints.  A statement is [select, where, tail]: the   *)
(* clauses of its WHERE in order, each taking its ? parameters from the    *)
(* front of the parameter list; tail says whether ORDER BY start_datetime  *)
(* ASC LIMIT ? OFFSET ? has been appended (its two parameters come last).  *)
(***************************************************************************)
Arity(clause) == IF clause = "notDeleted" THEN 0 ELSE IF clause = "search" THEN 3 ELSE 1

Holds(r, clause, ps) ==
    CASE clause = "notDeleted"   -> r.deleted_at = NULL
      [] clause = "specialCI"    -> LOWER(r.special) = ps[1]
      [] clause = "continentCI"  -> LOWER(r.continent) = LOWER(ps[1])
      [] clause = "formatCI"     -> LOWER(r.format) = LOWER(ps[1])
      [] clause = "continentEq"  -> r.continent = ps[1]
      [] clause = "formatEq"     -> r.format = ps[1]
      [] clause = "search"       -> \/ LIKE(r.title, ps[1])
                                    \/ LIKE(r.location, ps[2])
                                    \/ LIKE(r.players, ps[3])

RECURSIVE Where(_, _, _)
Where(r, where, ps) ==
    IF where = <<>> THEN TRUE
    ELSE /\ Holds(r, Head(where), ps)
         /\ Where(r, Tail(where), SubSeq(ps, Arity(Head(where)) + 1, Len(ps)))

Selected(t, stmt, ps) == {r \in t : Where(r, stmt.where, ps)}

\* a faulty variant: no ORDER BY, the rows come in any order
Unordered(S) ==
    {s \in [1..Cardinality(S) -> S] : \A i, j \in DOMAIN s : i # j => s[i] # s[j]}

\* the orders ORDER BY start_datetime ASC may return a set of rows in
Ordered(S) ==
    {s \in [1..Cardinality(S) -> S] :
        /\ \A i, j \in DOMAIN s : i # j => s[i] # s[j]
        /\ \A i, j \in DOMAIN s : i < j => s[i].start_datetime <= s[j].start_datetime}

Min(a, b) == IF a < b THEN a ELSE b

\* stmt.all(...params) of a SELECT * with its tail: the possible results
All(t, stmt, ps) ==
    LET limit  == ps[Len(ps) - 1]
        offset == ps[Len(ps)]
    IN  {SubSeq(s, offset + 1, Min(Len(s), offset + limit)) : s \in Ordered(Selected(t, stmt, ps))}

\* stmt.get(...params).count of a SELECT COUNT(*)
Count(t, stmt, ps) == Cardinality(Selected(t, stmt, ps))

Pattern(search) == <<"%">> \o search \o <<"%">>

Yes == <<"y", "e", "s">>

\* part_000: the admin API's filter builder (before ORDER BY is appended)
AdminFilter(q) ==
    LET c1 == IF q.special = Yes THEN <<"specialCI">> ELSE <<>>
        p1 == IF q.special = Yes THEN <<Yes>> ELSE <<>>
        c2 == IF q.continent # <<>> THEN <<"continentCI">> ELSE <<>>
        p2 == IF q.continent # <<>> THEN <<q.continent>> ELSE <<>>
        c3 == IF q.format # <<>> THEN <<"formatCI">> ELSE <<>>
        p3 == IF q.format # <<>> THEN <<q.format>> ELSE <<>>
        c4 == IF q.search # <<>> THEN <<"search">> ELSE <<>>
        p4 == IF q.search # <<>>
              THEN <<Pattern(q.search), Pattern(q.search), Pattern(q.search)>> ELSE <<>>
    IN  [stmt   |-> [select |-> "*", where |-> <<"notDeleted">> \o c1 \o c2 \o c3 \o c4,
                     tail |-> FALSE],
         params |-> p1 \o p2 \o p3 \o p4]

\* a faulty variant: SELECT COUNT(*) ... WHERE deleted_at IS NULL, without the filters
AdminCountAll(stmt) == [stmt EXCEPT !.select = "count", !.where = <<"notDeleted">>]

\* query.replace('SELECT *', 'SELECT COUNT(*) as count'), taken before the tail
AdminCountStmt(stmt) == [stmt EXCEPT !.select = "count"]

\* GET /api/events of the admin API: [data, total] for each order of ties
AdminList(t, q) ==
    LET f     == AdminFilter(q)
        total == Count(t, AdminCountStmt(f.stmt), f.params)
        stmt  == [f.stmt EXCEPT !.tail = TRUE]
        ps    == f.params \o <<q.limit, q.offset>>
    IN  {[data |-> d, total |-> total, returned |-> Len(d)] : d \in All(t, stmt, ps)}

\* part_003: calendar-api's filter builder, ORDER BY / LIMIT / OFFSET included
CalendarQuery(q) ==
    LET c2 == IF q.continent # <<>> THEN <<"continentEq">> ELSE <<>>
        p2 == IF q.continent # <<>> THEN <<q.continent>> ELSE <<>>
        c3 == IF q.format # <<>> THEN <<"formatEq">> ELSE <<>>
        p3 == IF q.format # <<>> THEN <<q.format>> ELSE <<>>
        c4 == IF q.search # <<>> THEN <<"search">> ELSE <<>>
        p4 == IF q.search # <<>>
              THEN <<Pattern(q.search), Pattern(q.search), Pattern(q.search)>> ELSE <<>>
    IN  [stmt   |-> [select |-> "*", where |-> <<"notDeleted">> \o c2 \o c3 \o c4,
                     tail |-> TRUE],
         params |-> p2 \o p3 \o p4 \o <<q.limit, q.offset>>]

\* replace(/SELECT \* FROM/, 'SELECT COUNT(*) as count FROM'), replace(/ORDER BY.+$/, '')
CalendarCountStmt(stmt) == [stmt EXCEPT !.select = "count", !.tail = FALSE]

\* params.slice(0, -2)
CalendarCountParams(ps) == SubSeq(ps, 1, Len(ps) - 2)

\* GET /api/events of calendar-api
CalendarList(t, q) ==
    LET f     == CalendarQuery(q)
        total == Count(t, CalendarCountStmt(f.stmt), CalendarCountParams(f.params))
    IN  {[data |-> d, total |-> total, returned |-> Len(d)] : d \in All(t, f.stmt, f.params)}

\* GET /api/events/upcoming at time t0: the rows it may return, before LIMIT
Upcoming(t, t0) == {r \in t : r.deleted_at = NULL /\ r.start_datetime >= t0}

\* a faulty variant: SELECT * FROM calendar_events WHERE id = ?
GetByIdOnly(t, id) == {r \in t : r.id = id}

\* GET /api/events/:id
GetById(t, id) == {r \in t : r.id = id /\ r.deleted_at = NULL}

(***************************************************************************)
(* Duplicates.                                                             *)
(***************************************************************************)
\* a faulty variant: GROUP BY LOWER(title), start_datetime
GroupKeyNoLocation(r) == <<LOWER(r.title), r.start_datetime>>

\* GROUP BY LOWER(title), LOWER(location), start_datetime
GroupKey(r) == <<LOWER(r.title), LOWER(r.location), r.start_datetime>>

\* WHERE deleted_at IS NULL GROUP BY ... HAVING COUNT(*) > 1: the id sets
DuplicateGroups(t) ==
    {g \in {{x \in Active(t) : GroupKey(x) = GroupKey(r)} : r \in Active(t)} :
        Cardinality(g) > 1}

\* WHERE id IN (ids) ORDER BY created_at ASC: the possible orders of one group
ByCreatedAt(t, g) ==
    LET S == {r \in t : r.id \in {x.id : x \in g}}
    IN  {s \in [1..Cardinality(S) -> S] :
            /\ \A i, j \in DOMAIN s : i # j => s[i] # s[j]
            /\ \A i, j \in DOMAIN s : i < j => s[i].created_at <= s[j].created_at}

\* GET /api/duplicates: the rows it lists, fetched by WHERE id IN (ids)
FindDuplicates(t) == UNION {{r \in t : r.id \in {x.id : x \in g}} : g \in DuplicateGroups(t)}

(***************************************************************************)
(* The handlers of the admin API (part_000).  res holds the response the   *)
(* handler sends: the operation, the id it was about (0: none), the HTTP   *)
(* status (0: not answered yet), the backup it names, and hook: whether    *)
(* the handler went on to call regenerateJsonFiles().  A handler that      *)
(* touches the database while the handle is closed throws, and answers 500.*)
(***************************************************************************)
Columns ==
    {"id", "title", "location", "start_datetime", "end_datetime", "url", "special",
     "continent", "format", "players", "created_at", "updated_at", "deleted_at"}

Response(op, id, status, hook) ==
    [op |-> op, id |-> id, status |-> status, hook |-> hook, backup |-> None]

Max(a, b) == IF a > b THEN a ELSE b

RECURSIVE MaxRowId(_)
MaxRowId(t) ==
    IF t = {} THEN 0 ELSE LET r == CHOOSE x \in t : TRUE IN Max(r.id, MaxRowId(t \ {r}))

\* the rowid INTEGER PRIMARY KEY AUTOINCREMENT gives the next insert
NextId(t, s) == Max(s, MaxRowId(t)) + 1

\* a JSON number (not 0) in the request body: truthy, and without a trim method
JsonNumber == <<"number">>

\* title.trim() or url.trim() throws TypeError: the value is not a string
TrimThrows(body) ==
    \/ Has(body, "title") /\ body.title = JsonNumber
    \/ Has(body, "url") /\ body.url = JsonNumber

\* !title || title.trim() === ''
TitleErrors(body) == ~Has(body, "title") \/ body.title = <<>> \/ Trim(body.title) = <<>>

\* !url || url.trim() === '', else new URL(url) throws
UrlErrors(body) ==
    IF ~Has(body, "url") \/ body.url = <<>> \/ Trim(body.url) = <<>>
    THEN TRUE
    ELSE ~UrlParses(body.url)

\* the row INSERT INTO calendar_events stores
Inserted(id, body, t0) ==
    LET eventStartTime == TimeOr(body, "start_datetime", t0)
        eventEndTime   == TimeOr(body, "end_datetime", eventStartTime)
    IN  [id             |-> id,
         title          |-> body.title,
         location       |-> TextOr(body, "location", <<>>),
         start_datetime |-> eventStartTime,
         end_datetime   |-> eventEndTime,
         url            |-> body.url,
         special        |-> TextOr(body, "special", <<>>),
         continent      |-> TextOr(body, "continent", <<>>),
         format         |-> TextOr(body, "format", <<>>),
         players        |-> TextOr(body, "players", <<>>),
         created_at     |-> t0,
         updated_at     |-> t0,
         deleted_at     |-> NULL]

\* the names of the createBackup calls that are running
Running(cs) == {c.name : c \in cs}

\* history: the store contents seen by each running createBackup
SeenAfter(t, cs) ==
    [n \in DOMAIN seen |-> IF n \in Running(cs) THEN seen[n] \cup {t} ELSE seen[n]]

Quiet == calls = {} /\ snaps = {}

\* an export process that has not read the database yet
Waiting == [read |-> FALSE, data |-> {}]

\* a faulty variant: the handler does not call regenerateJsonFiles()
NotSpawned(b) == b

\* regenerateJsonFiles(): exec('node export-all-categories.js', ...).  MaxRuns
\* waiting processes stand for MaxRuns or more.
Spawned(b) == IF CopiesIn(Waiting, b) < MaxRuns THEN b (+) SetToBag({Waiting}) ELSE b

\* a request handler ran: it left the backup manager as it was, and started an
\* export process if it called regenerateJsonFiles()
Served ==
    /\ turns' = IF Quiet THEN 0 ELSE turns + 1
    /\ runs' = IF res'.hook THEN Spawned(runs) ELSE runs
    /\ UNCHANGED <<handle, files, snaps, calls, names, now, exported>>

\* POST /api/events
Create(body) ==
    /\ handle # "down"
    /\ IF TrimThrows(body)
       THEN /\ res' = Response("create", 0, 500, FALSE)
            /\ UNCHANGED <<rows, seq, issued>>
       ELSE IF TitleErrors(body) \/ UrlErrors(body)
       THEN /\ res' = Response("create", 0, 400, FALSE)
            /\ UNCHANGED <<rows, seq, issued>>
       ELSE IF handle = "closed"
       THEN /\ res' = Response("create", 0, 500, FALSE)
            /\ UNCHANGED <<rows, seq, issued>>
       ELSE LET id == NextId(rows, seq)
            IN  /\ rows' = rows \cup {Inserted(id, body, now)}
                /\ seq' = id
                /\ issued' = issued \cup {id}
                /\ res' = Response("create", id, 201, TRUE)
    /\ seen' = SeenAfter(rows', calls)
    /\ Served

\* a faulty variant: Object.keys(updates) without the two deletes
UpdateFieldsAll(body) == DOMAIN body

\* delete updates.id; delete updates.created_at; Object.keys(updates)
UpdateFields(body) == DOMAIN body \ {"id", "created_at"}

\* a faulty variant: every key of the body is written, id and created_at too
UpdatedWithAll(r, body, t0) ==
    [f \in Columns |->
        IF f \in DOMAIN body THEN body[f]
        ELSE IF f = "updated_at" THEN t0
        ELSE r[f]]

\* a faulty variant: WHERE id = ?
UpdateTargetsAny(t, id) == {r \in t : r.id = id}

\* the rows UPDATE ... WHERE id = ? AND deleted_at IS NULL changes
UpdateTargets(t, id) == {r \in t : r.id = id /\ r.deleted_at = NULL}

\* UPDATE calendar_events SET f = ?, ..., updated_at = datetime('now')
Updated(r, body, t0) ==
    [f \in Columns |->
        IF f \in UpdateFields(body) THEN body[f]
        ELSE IF f = "updated_at" THEN t0
        ELSE r[f]]

\* PUT /api/events/:id
Update(id, body) ==
    /\ handle # "down"
    /\ IF UpdateFields(body) = {}
       THEN /\ res' = Response("update", id, 400, FALSE)
            /\ UNCHANGED rows
       ELSE IF handle = "closed"
       THEN /\ res' = Response("update", id, 500, FALSE)
            /\ UNCHANGED rows
       ELSE LET hit == UpdateTargets(rows, id)
            IN  /\ rows' = (rows \ hit) \cup {Updated(r, body, now) : r \in hit}
                /\ res' = IF hit = {} THEN Response("update", id, 404, FALSE)
                                      ELSE Response("update", id, 200, TRUE)
    /\ seen' = SeenAfter(rows', calls)
    /\ UNCHANGED <<seq, issued>>
    /\ Served

\* a faulty variant: SET deleted_at = datetime('now'), updated_at = datetime('now')
SoftDeletedTouching(t, id, t0) ==
    {IF r.id = id /\ r.deleted_at = NULL
     THEN [r EXCEPT !.deleted_at = t0, !.updated_at = t0] ELSE r : r \in t}

\* UPDATE calendar_events SET deleted_at = datetime('now') WHERE id = ? AND deleted_at IS NULL
SoftDeleted(t, id, t0) ==
    {IF r.id = id /\ r.deleted_at = NULL THEN [r EXCEPT !.deleted_at = t0] ELSE r : r \in t}

\* DELETE /api/events/:id without permanent=true
SoftDelete(id) ==
    /\ handle # "down"
    /\ IF handle = "closed"
       THEN /\ res' = Response("delete", id, 500, FALSE)
            /\ UNCHANGED rows
       ELSE /\ rows' = SoftDeleted(rows, id, now)
            /\ res' = IF \E r \in rows : r.id = id /\ r.deleted_at = NULL
                      THEN Response("delete", id, 200, TRUE)
                      ELSE Response("delete", id, 404, FALSE)
    /\ seen' = SeenAfter(rows', calls)
    /\ UNCHANGED <<seq, issued>>
    /\ Served

\* DELETE /api/events/:id of calendar-api, a process with a database handle of
\* its own: UPDATE calendar_events SET deleted_at = CURRENT_TIMESTAMP WHERE id = ?
CalendarSoftDelete(id) ==
    /\ rows' = {IF r.id = id THEN [r EXCEPT !.deleted_at = now] ELSE r : r \in rows}
    /\ res' = IF \E r \in rows : r.id = id
              THEN Response("calendarDelete", id, 204, FALSE)
              ELSE Response("calendarDelete", id, 404, FALSE)
    /\ seen' = SeenAfter(rows', calls)
    /\ UNCHANGED <<seq, issued>>
    /\ Served

\* a faulty variant: DELETE FROM calendar_events WHERE id = ? AND deleted_at IS NULL
RemovedIfActive(t, id) == {r \in t : r.id # id \/ r.deleted_at # NULL}

\* DELETE FROM calendar_events WHERE id = ?
Removed(t, id) == {r \in t : r.id # id}

\* DELETE /api/events/:id?permanent=true
PermanentDelete(id) ==
    /\ handle # "down"
    /\ IF handle = "closed"
       THEN /\ res' = Response("permanentDelete", id, 500, FALSE)
            /\ UNCHANGED rows
       ELSE /\ rows' = Removed(rows, id)
            /\ res' = IF \E r \in rows : r.id = id
                      THEN Response("permanentDelete", id, 200, TRUE)
                      ELSE Response("permanentDelete", id, 404, FALSE)
    /\ seen' = SeenAfter(rows', calls)
    /\ UNCHANGED <<seq, issued>>
    /\ Served

\* a faulty variant: UPDATE calendar_events SET deleted_at = NULL
RestoredAll(t, id) == {[r EXCEPT !.deleted_at = NULL] : r \in t}

\* UPDATE calendar_events SET deleted_at = NULL WHERE id = ?
Restored(t, id) == {IF r.id = id THEN [r EXCEPT !.deleted_at = NULL] ELSE r : r \in t}

\* POST /api/events/:id/restore
Restore(id) ==
    /\ handle # "down"
    /\ IF handle = "closed"
       THEN /\ res' = Response("restore", id, 500, FALSE)
            /\ UNCHANGED rows
       ELSE /\ rows' = Restored(rows, id)
            /\ res' = IF \E r \in rows : r.id = id
                      THEN Response("restore", id, 200, TRUE)
                      ELSE Response("restore", id, 404, FALSE)
    /\ seen' = SeenAfter(rows', calls)
    /\ UNCHANGED <<seq, issued>>
    /\ Served

\* the possible data of GET /api/duplicates: of every group its rows in an order
\* ORDER BY created_at ASC may give
DuplicateListings(t) ==
    {{k[g] : g \in DuplicateGroups(t)} :
        k \in {f \in [DuplicateGroups(t) -> UNION {ByCreatedAt(t, g) : g \in DuplicateGroups(t)}] :
                 \A g \in DuplicateGroups(t) : f[g] \in ByCreatedAt(t, g)}}

\* GET /api/duplicates
ListDuplicates ==
    /\ handle # "down"
    /\ IF handle = "closed"
       THEN res' = Response("duplicates", 0, 500, FALSE)
       ELSE \E d \in DuplicateListings(rows) :
               res' = [op |-> "duplicates", id |-> 0, status |-> 200, hook |-> FALSE,
                       backup |-> None, data |-> d, total |-> Cardinality(d)]
    /\ UNCHANGED <<rows, seq, issued, seen>>
    /\ Served

\* one second passes
Tick ==
    /\ now < MaxTime
    /\ now' = now + 1
    /\ UNCHANGED <<rows, seq, issued, handle, files, snaps, calls, names, res, turns, seen,
                   runs, exported>>

(***************************************************************************)
(* The backup manager.  createBackup(reason) names the backup, calls       *)
(* db.backup(backupPath) without awaiting the promise it returns, waits    *)
(* 100 ms and then writes the metadata sidecar.  The snapshot is taken on  *)
(* later turns of the event loop: it holds the content the database has    *)
(* when the last page is copied, and it may finish before or after the     *)
(* timer.  A rejected db.backup() promise has no handler, which ends the   *)
(* process.  Other requests are served while a caller waits.  On a closed  *)
(* handle db.backup() throws at once and createBackup reports the failure. *)
(***************************************************************************)
Content == [rows |-> rows, seq |-> seq]

\* fs.statSync(path).size, in rows
Size(file) == IF file = NoFile THEN 0 ELSE 1 + Cardinality(file.rows)

\* a name with neither snapshot nor sidecar in the backups directory
Absent == [snap |-> NoFile, meta |-> NoFile, mtime |-> NULL]

\* the snapshot (with its mtime) and the sidecar stored under a name
FileOf(name) == IF name \in DOMAIN files THEN files[name] ELSE Absent

\* calendar_${reason}_${timestamp}.db
NewName(reason) == [reason |-> reason, ts |-> names + 1]

\* createBackup up to its await: the name is formed and db.backup() is started
BackupStarted(reason) ==
    /\ names' = names + 1
    /\ files' = [n \in DOMAIN files \cup {NewName(reason)} |->
                    IF n = NewName(reason) THEN Absent ELSE files[n]]
    /\ snaps' = snaps \cup {NewName(reason)}
    /\ seen' = [n \in DOMAIN seen \cup {NewName(reason)} |->
                    IF n = NewName(reason) THEN {rows} ELSE seen[n]]

\* a request handler ran, and touched no backup
NoBackup ==
    /\ turns' = IF Quiet THEN 0 ELSE turns + 1
    /\ UNCHANGED <<handle, files, snaps, calls, names, seen>>

\* a handler is suspended in createBackup(reason)
Suspended(kind, reason, target) ==
    /\ res' = Response(kind, 0, 0, FALSE)
    /\ BackupStarted(reason)
    /\ calls' = calls \cup {[kind |-> kind, name |-> NewName(reason), target |-> target]}
    /\ turns' = IF Quiet THEN 0 ELSE turns + 1
    /\ UNCHANGED handle

\* createBackup on a closed handle: db.backup() fails.  Either createBackup
\* catches the error and its caller answers 500, or the failure is a rejected
\* promise that nothing handles, and the process ends before it answers.
ClosedBackup(kind) ==
    \/ /\ res' = Response(kind, 0, 500, FALSE)
       /\ NoBackup
    \/ /\ handle' = "down"
       /\ snaps' = {}
       /\ calls' = {}
       /\ turns' = 0
       /\ UNCHANGED <<res, files, names, seen>>

\* POST /api/backups, up to the await in createBackup
StartBackup(reason) ==
    /\ handle # "down"
    /\ IF handle = "closed"
       THEN ClosedBackup("backup")
       ELSE Suspended("backup", reason, None)
    /\ UNCHANGED <<rows, seq, issued, now, runs, exported>>

\* POST /api/backups/:filename/restore, up to the await in createBackup
StartRestore(filename) ==
    /\ handle # "down"
    /\ IF filename \notin DOMAIN files \/ files[filename].snap = NoFile
       THEN /\ res' = Response("restoreBackup", 0, 500, FALSE)
            /\ NoBackup
       ELSE IF handle = "closed"
       THEN ClosedBackup("restoreBackup")
       ELSE Suspended("restoreBackup", "pre-restore", filename)
    /\ UNCHANGED <<rows, seq, issued, now, runs, exported>>

\* a faulty variant: the mode is not looked at
AnyMode(mode) == TRUE

\* if (mode === 'auto')
AutoMode(mode) == mode = "auto"

\* POST /api/duplicates/delete, up to the await in createBackup
StartDeleteDuplicates(mode) ==
    /\ handle # "down"
    /\ IF ~AutoMode(mode)
       THEN /\ res' = Response("deleteDuplicates", 0, 400, FALSE)
            /\ NoBackup
       ELSE IF handle = "closed"
       THEN ClosedBackup("deleteDuplicates")
       ELSE Suspended("deleteDuplicates", "duplicate-deletion", None)
    /\ UNCHANGED <<rows, seq, issued, now, runs, exported>>

\* db.backup()'s promise resolves: the snapshot file is complete, unless it was
\* unlinked while it was written
SnapshotFinish(name) ==
    /\ name \in snaps
    /\ handle = "open"
    /\ snaps' = snaps \ {name}
    /\ files' = IF name \in DOMAIN files
                THEN [files EXCEPT ![name].snap = Content, ![name].mtime = now]
                ELSE files
    /\ turns' = IF calls = {} /\ snaps' = {} THEN 0 ELSE turns
    /\ UNCHANGED <<rows, seq, issued, handle, calls, names, now, res, seen, runs, exported>>

\* db.backup()'s promise rejects (an I/O error, or the handle was closed):
\* the unhandled rejection ends the process
SnapshotFail(name) ==
    /\ name \in snaps
    /\ handle # "down"
    /\ handle' = "down"
    /\ snaps' = {}
    /\ calls' = {}
    /\ turns' = 0
    /\ UNCHANGED <<rows, seq, issued, files, names, now, res, seen, runs, exported>>

\* the process is started again: const db = new Database(DB_PATH)
Restart ==
    /\ handle # "open"
    /\ handle' = "open"
    /\ snaps' = {}
    /\ calls' = {}
    /\ turns' = 0
    /\ UNCHANGED <<rows, seq, issued, files, names, now, res, seen, runs, exported>>

\* the metadata createBackup writes after the wait
Metadata(name) ==
    [filename     |-> name,
     timestamp    |-> now,
     reason       |-> name.reason,
     originalSize |-> Size(Content),
     backupSize   |-> Size(FileOf(name).snap),
     eventCount   |-> Cardinality(Active(rows))]

\* a faulty variant: the loop keeps the last row by created_at
KeepersLatest(t) ==
    {k \in [DuplicateGroups(t) -> t] :
        \A g \in DuplicateGroups(t) : \E s \in ByCreatedAt(t, g) : k[g] = s[Len(s)]}

\* of every duplicate group the loop keeps events[0], the first by created_at
Keepers(t) ==
    {k \in [DuplicateGroups(t) -> t] :
        \A g \in DuplicateGroups(t) : \E s \in ByCreatedAt(t, g) : k[g] = s[1]}

\* deleteStmt.run(events[i].id) for i >= 1, in every group
Deduplicated(t, k, t0) ==
    {IF \E g \in DuplicateGroups(t) : r \in g /\ r # k[g]
     THEN [r EXCEPT !.deleted_at = t0] ELSE r : r \in t}

DeletedCount(t) ==
    Cardinality(UNION DuplicateGroups(t)) - Cardinality(DuplicateGroups(t))

\* the rest of restoreFromBackup: db.close(), then fs.copyFileSync(backupPath, DB_PATH)
Replace(c) ==
    /\ handle' = "closed"
    /\ IF FileOf(c.target).snap = NoFile
       THEN /\ res' = Response("restoreBackup", 0, 500, FALSE)
            /\ UNCHANGED <<rows, seq, issued>>
       ELSE /\ rows' = files[c.target].snap.rows
            /\ seq' = files[c.target].snap.seq
            /\ UNCHANGED issued
            /\ res' = [Response("restoreBackup", 0, 200, FALSE) EXCEPT !.backup = c.name]

\* the rest of POST /api/duplicates/delete
DeleteDuplicates(c) ==
    /\ \E k \in Keepers(rows) : rows' = Deduplicated(rows, k, now)
    /\ res' = [Response("deleteDuplicates", DeletedCount(rows), 200, TRUE)
                  EXCEPT !.backup = c.name]
    /\ UNCHANGED <<seq, issued, handle>>

\* the backups directory after fs.writeFileSync(metadataPath, ...) left m
Written(name, m) ==
    IF name \notin DOMAIN files /\ m = NoFile
    THEN files
    ELSE [n \in DOMAIN files \cup {name} |->
            IF n = name THEN [FileOf(name) EXCEPT !.meta = m] ELSE files[n]]

\* the 100 ms timer fires: createBackup writes the sidecar and returns, and its
\* caller runs to its end.  Timers of one delay fire in the order they were set.
\* metaOk is whether fs.writeFileSync succeeded; when it
\* throws, it has either created nothing or left a truncated file.  On a closed
\* handle the COUNT(*) statement throws before anything is written.
TimerFires(c, metaOk) ==
    /\ c \in calls
    /\ \A d \in calls : c.name.ts <= d.name.ts
    /\ handle # "down"
    /\ calls' = calls \ {c}
    /\ IF handle = "open" /\ metaOk
       THEN /\ files' = Written(c.name, Metadata(c.name))
            /\ IF c.kind = "backup"
               THEN /\ res' = [Response("backup", 0, 200, FALSE) EXCEPT !.backup = c.name]
                    /\ UNCHANGED <<rows, seq, issued, handle>>
               ELSE IF c.kind = "deleteDuplicates"
               THEN DeleteDuplicates(c)
               ELSE Replace(c)
       ELSE /\ res' = Response(c.kind, 0, 500, FALSE)
            /\ IF handle = "open"
               THEN \E m \in {NoFile, Corrupt} : files' = Written(c.name, m)
               ELSE UNCHANGED files
            /\ UNCHANGED <<rows, seq, issued, handle>>
    /\ seen' = SeenAfter(rows', calls')
    /\ turns' = IF calls' = {} /\ snaps = {} THEN 0 ELSE turns
    /\ runs' = IF res'.hook THEN Spawned(runs) ELSE runs
    /\ UNCHANGED <<snaps, names, now, exported>>

\* eventCount: 'unknown', the default of an entry without a readable sidecar
UnknownCount == -1

\* the snapshot files fs.readdirSync finds: the complete ones, and a file
\* db.backup() is still writing if it has been created by now
Complete == {n \in DOMAIN files : files[n].snap # NoFile}

InProgress == {n \in DOMAIN files \cap snaps : files[n].snap = NoFile}

\* the entry of one snapshot file: the defaults from fs.statSync, overridden by
\* the sidecar when it exists and JSON.parse accepts it
Entry(n) ==
    LET f == files[n]
        fromFs == [filename   |-> n,
                   timestamp  |-> IF f.snap = NoFile THEN now ELSE f.mtime,
                   reason     |-> "unknown",
                   eventCount |-> UnknownCount]
    IN  IF f.meta \in {NoFile, Corrupt}
        THEN fromFs
        ELSE [filename   |-> f.meta.filename,
              timestamp  |-> f.meta.timestamp,
              reason     |-> f.meta.reason,
              eventCount |-> f.meta.eventCount]

\* a faulty variant: sort((a, b) => new Date(a.timestamp) - new Date(b.timestamp))
OldestFirst(E) ==
    {l \in [1..Cardinality(E) -> E] :
        /\ \A i, j \in DOMAIN l : i # j => l[i] # l[j]
        /\ \A i, j \in DOMAIN l : i < j => l[i].timestamp <= l[j].timestamp}

\* backups.sort((a, b) => new Date(b.timestamp) - new Date(a.timestamp))
NewestFirst(E) ==
    {l \in [1..Cardinality(E) -> E] :
        /\ \A i, j \in DOMAIN l : i # j => l[i] # l[j]
        /\ \A i, j \in DOMAIN l : i < j => l[i].timestamp >= l[j].timestamp}

\* listBackups(): the lists it may return
Listings ==
    UNION {NewestFirst({Entry(n) : n \in Complete \cup S}) : S \in SUBSET InProgress}

\* GET /api/backups
ListBackups ==
    /\ handle # "down"
    /\ \E l \in Listings :
          res' = [op |-> "listBackups", id |-> 0, status |-> 200, hook |-> FALSE,
                  backup |-> None, data |-> l, total |-> Len(l)]
    /\ UNCHANGED <<rows, seq, issued, seen>>
    /\ Served

\* a faulty variant: only the snapshot is unlinked
UnlinkedSnapshot(name) ==
    IF name \in DOMAIN files
    THEN [files EXCEPT ![name].snap = NoFile, ![name].mtime = NULL]
    ELSE files

\* deleteBackup(): fs.unlinkSync of the snapshot and of the sidecar, if they exist
Unlinked(name) == [n \in DOMAIN files \ {name} |-> files[n]]

\* DELETE /api/backups/:filename
DeleteBackup(name) ==
    /\ handle # "down"
    /\ files' = Unlinked(name)
    /\ res' = [Response("deleteBackup", 0, 200, FALSE) EXCEPT !.backup = name]
    /\ turns' = IF Quiet THEN 0 ELSE turns + 1
    /\ UNCHANGED <<rows, seq, issued, handle, snaps, calls, names, now, seen, runs, exported>>

(***************************************************************************)
(* export-all-categories.js, run as a process of its own.  It opens the    *)
(* database file, selects the non-deleted rows and writes events.json. The *)
(* exec callback logs an error and does nothing else.                      *)
(***************************************************************************)
\* SELECT * FROM calendar_events WHERE deleted_at IS NULL ... .all()
ExportReads ==
    /\ BagIn(Waiting, runs)
    /\ runs' = (runs (-) SetToBag({Waiting})) (+) SetToBag({[read |-> TRUE, data |-> Active(rows)]})
    /\ UNCHANGED <<rows, seq, issued, handle, files, snaps, calls, names, now, res, turns, seen,
                   exported>>

\* writeJSON('events', allEvents, 'All tournaments')
ExportWrites(p) ==
    /\ BagIn(p, runs)
    /\ p.read
    /\ exported' = p.data
    /\ runs' = runs (-) SetToBag({p})
    /\ UNCHANGED <<rows, seq, issued, handle, files, snaps, calls, names, now, res, turns, seen>>

\* the process ends with an error before it has written events.json
ExportFails(p) ==
    /\ BagIn(p, runs)
    /\ runs' = runs (-) SetToBag({p})
    /\ UNCHANGED <<rows, seq, issued, handle, files, snaps, calls, names, now, res, turns, seen,
                   exported>>

(***************************************************************************)
(* The store after deployment: an empty table, nothing in ./backups.       *)
(***************************************************************************)
Init ==
    /\ rows = {}
    /\ seq = 0
    /\ issued = {}
    /\ runs = EmptyBag
    /\ exported = Active(rows)
    /\ handle = "open"
    /\ files = <<>>
    /\ snaps = {}
    /\ calls = {}
    /\ names = 0
    /\ now = 1
    /\ res = Response("start", 0, 0, FALSE)
    /\ turns = 0
    /\ seen = <<>>

HttpUrl == <<"http", ":", "//", "x">>

\* request bodies of POST /api/events
Bodies ==
    {[title |-> t, url |-> HttpUrl, location |-> l, start_datetime |-> 1] :
        t \in {<<"a">>, <<"A">>}, l \in {<<"p">>, <<"P">>}}
    \cup {[title |-> <<"a">>, url |-> HttpUrl], [url |-> HttpUrl],
          [title |-> <<"b">>, url |-> <<"x">>]}

\* request bodies of PUT /api/events/:id
Updates ==
    {[location |-> <<"P">>], [id |-> 2, created_at |-> 2], [deleted_at |-> 1], <<>>,
     [id |-> 2, created_at |-> 2, location |-> <<"P">>]}

Ids == 1..MaxId

\* the event handlers, one request at a time
Next ==
    \/ \E b \in Bodies : seq < MaxId /\ Create(b)
    \/ \E id \in Ids, b \in Updates : Update(id, b)
    \/ \E id \in Ids : SoftDelete(id)
    \/ \E id \in Ids : PermanentDelete(id)
    \/ \E id \in Ids : Restore(id)
    \/ \E id \in Ids : CalendarSoftDelete(id)
    \/ ListDuplicates
    \/ Tick

Spec == Init /\ [][Next]_vars

(***************************************************************************)
(* All the event handlers together with duplicate clean-up, which suspends *)
(* in createBackup: other requests are served while it waits.  The clock   *)
(* stands still here.                                                      *)
(***************************************************************************)
MayServe == Quiet \/ turns < MaxTurns

OneBody == {[title |-> <<"a">>, url |-> HttpUrl, start_datetime |-> 1]}

FewUpdates == {[title |-> <<"b">>]}

EventIds == 1..MaxEvents

NextStore ==
    \/ \E b \in OneBody : MayServe /\ seq < MaxEvents /\ Create(b)
    \/ \E id \in EventIds, b \in FewUpdates : MayServe /\ Update(id, b)
    \/ \E id \in EventIds : MayServe /\ SoftDelete(id)
    \/ \E id \in EventIds : MayServe /\ PermanentDelete(id)
    \/ \E id \in EventIds : MayServe /\ Restore(id)
    \/ \E mode \in {"auto", "manual"} :
          MayServe /\ names < MaxDedupes /\ Cardinality(calls) < MaxCalls
                   /\ StartDeleteDuplicates(mode)
    \/ \E n \in snaps : SnapshotFinish(n)
    \/ \E n \in snaps : SnapshotFail(n)
    \/ \E c \in calls, ok \in BOOLEAN : TimerFires(c, ok)
    \/ Restart

SpecStore == Init /\ [][NextStore]_vars

(***************************************************************************)
(* Duplicate clean-up of a table that is already filled: up to MaxTable    *)
(* rows, inserted in the order of their ids, some of them soft-deleted.    *)
(* Other requests arrive while the clean-up waits in createBackup.         *)
(***************************************************************************)
Stored(id, title, created, deleted) ==
    [Inserted(id, [title |-> title, url |-> HttpUrl, start_datetime |-> 1], created)
        EXCEPT !.deleted_at = deleted]

Slots ==
    [1..MaxTable -> {None} \cup
        [title : {<<"a">>, <<"A">>, <<"b">>}, created : 1..MaxTime, deleted : {NULL, MaxTime}]]

Tables ==
    {{Stored(id, f[id].title, f[id].created, f[id].deleted) : id \in {i \in 1..MaxTable : f[i] # None}} :
        f \in {g \in Slots : \A i, j \in 1..MaxTable :
                  (g[i] # None /\ g[j] # None /\ i < j) => g[i].created <= g[j].created}}

InitDedupe ==
    /\ rows \in Tables
    /\ seq = MaxTable
    /\ issued = 1..MaxTable
    /\ runs = EmptyBag
    /\ exported = Active(rows)
    /\ handle = "open"
    /\ files = <<>>
    /\ snaps = {}
    /\ calls = {}
    /\ names = 0
    /\ now = MaxTime
    /\ res = Response("start", 0, 0, FALSE)
    /\ turns = 0
    /\ seen = <<>>

NextDedupe ==
    \/ \E b \in OneBody : ~Quiet /\ MayServe /\ seq < MaxTable + 1 /\ Create(b)
    \/ \E id \in 1..MaxTable : ~Quiet /\ MayServe /\ SoftDelete(id)
    \/ \E mode \in {"auto", "manual"} :
          MayServe /\ names < MaxDedupes /\ Cardinality(calls) < MaxCalls
                   /\ StartDeleteDuplicates(mode)
    \/ \E n \in snaps : SnapshotFinish(n)
    \/ \E n \in snaps : SnapshotFail(n)
    \/ \E c \in calls, ok \in BOOLEAN : TimerFires(c, ok)
    \/ Restart

SpecDedupe == InitDedupe /\ [][NextDedupe]_vars

(***************************************************************************)
(* The backup manager under concurrent requests.                           *)
(***************************************************************************)
NextBackup ==
    \/ \E b \in OneBody : MayServe /\ seq < MaxEvents /\ Create(b)
    \/ \E id \in EventIds : MayServe /\ SoftDelete(id)
    \/ \E reason \in {"manual"} :
          MayServe /\ names < MaxBackups /\ Cardinality(calls) < MaxCalls
                   /\ StartBackup(reason)
    \/ \E f \in DOMAIN files :
          MayServe /\ (names < MaxBackups \/ handle = "closed") /\ Cardinality(calls) < MaxCalls
                   /\ StartRestore(f)
    \/ \E n \in snaps : SnapshotFinish(n)
    \/ \E n \in snaps : SnapshotFail(n)
    \/ \E c \in calls, ok \in BOOLEAN : TimerFires(c, ok)
    \/ Restart

SpecBackup == Init /\ [][NextBackup]_vars

(***************************************************************************)
(* The backups directory: backups made at different times, listed and      *)
(* deleted.                                                                *)
(***************************************************************************)
\* the file names of DELETE /api/backups/:filename
BackupNames == {[reason |-> "manual", ts |-> t] : t \in 1..MaxBackups}

NextFiles ==
    \/ \E b \in OneBody : Quiet /\ seq < MaxStored /\ Create(b)
    \/ \E reason \in {"manual"} :
          MayServe /\ names < MaxBackups /\ Cardinality(calls) < MaxCalls
                   /\ StartBackup(reason)
    \/ \E n \in snaps : SnapshotFinish(n)
    \/ \E c \in calls, ok \in BOOLEAN : TimerFires(c, ok)
    \/ MayServe /\ ListBackups
    \/ \E n \in BackupNames : MayServe /\ DeleteBackup(n)
    \/ Tick

SpecFiles == Init /\ [][NextFiles]_vars

(***************************************************************************)
(* Two admin requests in flight at once: a backup or a restore is started  *)
(* while another one waits in createBackup.                                *)
(***************************************************************************)
MaxOverlap == 2        \* handlers suspended in createBackup at once
MaxOverlapNames == 3   \* backup names handed out

NextOverlap ==
    \/ \E b \in OneBody : Quiet /\ seq < MaxStored /\ Create(b)
    \/ \E reason \in {"manual"} :
          /\ Quiet \/ turns < MaxOverlap
          /\ names < MaxOverlapNames /\ Cardinality(calls) < MaxOverlap
          /\ StartBackup(reason)
    \/ \E f \in DOMAIN files :
          /\ Quiet \/ turns < MaxOverlap
          /\ names < MaxOverlapNames /\ Cardinality(calls) < MaxOverlap
          /\ StartRestore(f)
    \/ \E n \in snaps : SnapshotFinish(n)
    \/ \E n \in snaps : SnapshotFail(n)
    \/ \E c \in calls, ok \in BOOLEAN : TimerFires(c, ok)
    \/ Restart

SpecOverlap == Init /\ [][NextOverlap]_vars

(***************************************************************************)
(* The list endpoints applied to a filled table.  The responses carry the  *)
(* query they answer.                                                      *)
(***************************************************************************)
Row(id, title, location, players, continent, format, special, start, deleted) ==
    [Inserted(id, [title |-> title, url |-> HttpUrl, location |-> location,
                   players |-> players, continent |-> continent, format |-> format,
                   special |-> special, start_datetime |-> start], 1)
        EXCEPT !.deleted_at = deleted]

QueryPool ==
    {Row(1, <<"a">>, <<>>, <<>>, <<"A">>, <<"b">>, <<"Y", "e", "s">>, 2, NULL),
     Row(2, <<"B">>, <<"p", "a">>, <<>>, <<"a">>, <<"B">>, <<>>, 1, NULL),
     Row(3, <<"q">>, <<>>, <<"A", "b">>, <<"A">>, <<>>, Yes, 1, 1),
     Row(4, <<"q">>, <<"p">>, <<>>, <<>>, <<>>, <<>>, 1, NULL)}

Queries ==
    [special : {<<>>, Yes}, continent : {<<>>, <<"a">>, <<"A">>, <<"q">>},
     format : {<<>>, <<"b">>}, search : {<<>>, <<"a">>, <<"%">>, <<"_">>},
     limit : {1, MaxRows}, offset : {0, 1}]

Listed(op, q, l) ==
    [op |-> op, id |-> 0, status |-> 200, hook |-> FALSE, backup |-> None,
     query |-> q, data |-> l.data, total |-> l.total, returned |-> l.returned]

\* GET /api/events of the admin API
ListEvents(q) ==
    /\ handle # "down"
    /\ IF handle = "closed"
       THEN res' = Response("list", 0, 500, FALSE)
       ELSE \E l \in AdminList(rows, q) : res' = Listed("list", q, l)
    /\ UNCHANGED <<rows, seq, issued, seen>>
    /\ Served

\* GET /api/events of calendar-api, a process with a database handle of its own
CalendarListEvents(q) ==
    /\ \E l \in CalendarList(rows, q) : res' = Listed("calendarList", q, l)
    /\ UNCHANGED <<rows, seq, issued, seen>>
    /\ Served

InitQuery ==
    /\ rows \in SUBSET QueryPool
    /\ seq = MaxRows
    /\ issued = 1..MaxRows
    /\ runs = EmptyBag
    /\ exported = Active(rows)
    /\ handle = "open"
    /\ files = <<>>
    /\ snaps = {}
    /\ calls = {}
    /\ names = 0
    /\ now = 1
    /\ res = Response("start", 0, 0, FALSE)
    /\ turns = 0
    /\ seen = <<>>

\* a list request reads the table and writes nothing: one request per table
\* shows every response
Unanswered == res.status = 0

NextQuery ==
    \/ \E q \in Queries : Unanswered /\ ListEvents(q)
    \/ \E q \in Queries : Unanswered /\ CalendarListEvents(q)

SpecQuery == InitQuery /\ [][NextQuery]_vars

(***************************************************************************)
(* POST /api/events with every kind of title and url.                      *)
(***************************************************************************)
Titles == {<<>>, <<" ">>, <<"a">>, <<" ", "a">>, JsonNumber}

Urls ==
    {<<>>, <<" ">>, HttpUrl, <<"x">>, <<"x", " ", "x">>, <<"http", ":", "//">>,
     <<"http", ":", "x">>, <<"x", ":", "x">>, <<"//", "x">>, <<" ", "http", ":", "//", "x">>,
     JsonNumber}

CreateBodies ==
    [title : Titles, url : Urls] \cup [title : Titles] \cup [url : Urls] \cup {<<>>}

NextCreate ==
    \/ \E b \in CreateBodies : seq < MaxCreated /\ Create(b)
    \/ Tick

SpecCreate == Init /\ [][NextCreate]_vars

(***************************************************************************)
(* The event handlers together with the export processes they start.  A    *)
(* request is served while at most MaxInFlight processes are under way.    *)
(***************************************************************************)
MaySpawn == CopiesIn(Waiting, runs) < MaxRuns /\ BagCardinality(runs) < MaxInFlight

NextExport ==
    \/ \E b \in OneBody : MaySpawn /\ seq < MaxEvents /\ Create(b)
    \/ \E id \in EventIds, b \in FewUpdates : MaySpawn /\ Update(id, b)
    \/ \E id \in EventIds : MaySpawn /\ SoftDelete(id)
    \/ \E id \in EventIds : MaySpawn /\ PermanentDelete(id)
    \/ \E id \in EventIds : MaySpawn /\ Restore(id)
    \/ ExportReads
    \/ \E p \in BagToSet(runs) : ExportWrites(p)
    \/ \E p \in BagToSet(runs) : ExportFails(p)

SpecExport == Init /\ [][NextExport]_vars

(***************************************************************************)
(* Soft delete: what the reads return, and what survives.                  *)
(***************************************************************************)
StoreQueries ==
    [special : {<<>>, Yes}, continent : {<<>>, <<"A">>}, format : {<<>>},
     search : {<<>>, <<"a">>, <<"%">>}, limit : {MaxEvents}, offset : {0}]

\* every row some read operation returns from table t at time t0
ReadResults(t, t0) ==
    UNION {{l.data[i] : i \in 1..Len(l.data)} :
              l \in UNION {AdminList(t, q) \cup CalendarList(t, q) : q \in StoreQueries}}
    \cup Upcoming(t, t0)
    \cup UNION {GetById(t, id) : id \in EventIds}
    \cup FindDuplicates(t)

ReadsHideDeleted == \A r \in ReadResults(rows, now) : r.deleted_at = NULL

\* a soft-deleted row is still in the table, still soft-deleted, after any step
\* other than PermanentDelete or Restore of its id
DeletedRowsStay ==
    \A r \in rows :
        r.deleted_at # NULL =>
            \/ \E r2 \in rows' : r2.id = r.id /\ r2.deleted_at # NULL
            \/ PermanentDelete(r.id)
            \/ Restore(r.id)

\* C1: after any sequence of Create, Update, SoftDelete, Restore, PermanentDelete
\* and DeleteDuplicates no read (filtered list, upcoming, get-by-id,
\* FindDuplicates) returns a record whose deleted_at is set, and a soft-deleted
\* record stays in the table until PermanentDelete or Restore of it.
C1_SoftDeletedHidden == [](ReadsHideDeleted) /\ [][DeletedRowsStay]_vars

\* duplicate clean-up has soft-deleted a row: it is stored and no read returns it
C1_Witness ==
    /\ res.op = "deleteDuplicates" /\ res.status = 200
    /\ \E r \in rows : r.deleted_at # NULL /\ r \notin ReadResults(rows, now)
    /\ Active(rows) # {}

\* r2 is r in every column but deleted_at
SameButDeletedAt(r, r2) == \A f \in Columns \ {"deleted_at"} : r[f] = r2[f]

\* a step that rewrites row id of the table into a row with the same columns
\* but deleted_at, and leaves every other row alone
OnlyDeletedAtOf(id) ==
    /\ \A r \in rows : IF r.id = id THEN \E r2 \in rows' : SameButDeletedAt(r, r2)
                                    ELSE r \in rows'
    /\ Cardinality(rows') = Cardinality(rows)
    /\ seq' = seq

\* the request before this one was a successful SoftDelete(id)
JustSoftDeleted(id) == res.op = "delete" /\ res.id = id /\ res.status = 200

\* C2: SoftDelete(id) followed by Restore(id) round-trips.  The SoftDelete sets
\* deleted_at of row id and changes no other column and no other row; the
\* Restore that follows succeeds, sets deleted_at back to NULL and again changes
\* nothing else, so the row is what it was before the SoftDelete.
C2_SoftDeleteRestoreRoundTrip ==
    [][\A id \in Ids :
          /\ (SoftDelete(id) /\ res'.status = 200) =>
                /\ OnlyDeletedAtOf(id)
                /\ \A r2 \in rows' : r2.id = id => r2.deleted_at # NULL
          /\ (JustSoftDeleted(id) /\ Restore(id)) =>
                /\ res'.status = 200
                /\ OnlyDeletedAtOf(id)
                /\ \A r2 \in rows' : r2.id = id => r2.deleted_at = NULL]_vars

\* row id was soft-deleted a second after it was written, and Restore(id) is next
C2_Witness ==
    /\ \E id \in Ids :
          /\ JustSoftDeleted(id)
          /\ ENABLED Restore(id)
          /\ \E r \in rows : r.id = id /\ r.deleted_at > r.updated_at /\ r.location # <<>>
    /\ Cardinality(rows) = 2

(***************************************************************************)
(* Restore from a backup.                                                  *)
(***************************************************************************)
\* the step in which restoreFromBackup, suspended as call c, runs to its end
RestoreReturns(c) == c.kind = "restoreBackup" /\ \E ok \in BOOLEAN : TimerFires(c, ok)

\* C3: RestoreFromBackup replaces the live store only after a "pre-restore"
\* backup of the current state was created in the same call: when it has copied
\* the backup over the store, the pre-restore snapshot exists and holds a state
\* the store had during the call; when the backup is not found or createBackup
\* fails, the store is unchanged.
C3_RestoreOnlyAfterPreRestoreBackup ==
    [][/\ \A c \in calls :
             RestoreReturns(c) =>
                IF res'.status = 200
                THEN /\ files[c.name].snap # NoFile
                     /\ files[c.name].snap.rows \in seen[c.name]
                ELSE rows' = rows /\ seq' = seq
       /\ \A f \in DOMAIN files : StartRestore(f) => rows' = rows /\ seq' = seq]_vars

\* C4: CreateBackup in state S, then mutations, then RestoreFromBackup of that
\* backup: the store holds exactly the rows of S (a state the store had while
\* CreateBackup ran), and the backups directory has one more name, tagged
\* "pre-restore".
C4_RestoreGivesBackedUpState ==
    [][\A c \in calls :
          (RestoreReturns(c) /\ c.target.reason = "manual" /\ res'.status = 200) =>
              /\ rows' \in seen[c.target]
              /\ c.name.reason = "pre-restore" /\ c.name \in DOMAIN files']_vars

(***************************************************************************)
(* Duplicate clean-up.                                                     *)
(***************************************************************************)
\* the step in which POST /api/duplicates/delete, suspended as call c, runs to its end
DedupeReturns(c) == c.kind = "deleteDuplicates" /\ \E ok \in BOOLEAN : TimerFires(c, ok)

\* C5: DeleteDuplicates("auto") soft-deletes a record only after a backup tagged
\* "duplicate-deletion" was created in the same call: when the call has
\* soft-deleted a row the snapshot of that backup exists, and when the backup
\* step fails the call fails and soft-deletes nothing.
C5_DedupeOnlyAfterBackup ==
    [][\A c \in calls :
          DedupeReturns(c) =>
             /\ rows' # rows =>
                   /\ c.name.reason = "duplicate-deletion"
                   /\ files[c.name].snap # NoFile
             /\ res'.status # 200 => rows' = rows]_vars

\* the rows of group g that table t holds, by id
Members(t, g) == {r \in t : r.id \in {x.id : x \in g}}

\* C6: after a successful DeleteDuplicates("auto") every duplicate group found
\* by the call has exactly one active member, which has the earliest created_at
\* of the group, every other member is soft-deleted with no other column
\* changed, and every row outside the groups is unchanged.
C6_DedupeKeepsEarliest ==
    [][\A c \in calls :
          (DedupeReturns(c) /\ res'.status = 200) =>
             /\ \A g \in DuplicateGroups(rows) :
                   /\ Cardinality(Active(Members(rows', g))) = 1
                   /\ \A k \in Active(Members(rows', g)) :
                         k \in g /\ \A r \in g : k.created_at <= r.created_at
                   /\ \A r \in g : r \in rows' \/ [r EXCEPT !.deleted_at = now] \in rows'
                   /\ Cardinality(Members(rows', g)) = Cardinality(g)
             /\ \A r \in rows \ UNION DuplicateGroups(rows) : r \in rows'
             /\ Cardinality(rows') = Cardinality(rows)]_vars

\* the clean-up has soft-deleted the later member of a group whose titles differ
\* in case and which were not written in the same second, and left a row
\* outside the group alone
C6_Witness ==
    /\ res.op = "deleteDuplicates" /\ res.status = 200 /\ res.id = 1
    /\ \E k \in Active(rows), r \in rows :
          /\ r.deleted_at = now /\ GroupKey(r) = GroupKey(k) /\ r.title # k.title
          /\ k.created_at < r.created_at
    /\ \E r \in Active(rows) : r.title = <<"b">>

(***************************************************************************)
(* The list endpoints.                                                     *)
(***************************************************************************)
IsList == res.op \in {"list", "calendarList"} /\ res.status = 200

\* the answers the endpoint of response r gives to query q
Answers(op, q) == IF op = "list" THEN AdminList(rows, q) ELSE CalendarList(rows, q)

\* query q with LIMIT covering the whole table and OFFSET 0
Unpaged(q) == [q EXCEPT !.limit = Cardinality(rows) + 1, !.offset = 0]

RowsOf(data) == {data[i] : i \in 1..Len(data)}

NoFilter(q) == q.special = <<>> /\ q.continent = <<>> /\ q.format = <<>> /\ q.search = <<>>

\* C8: with no filter, offset 0 and a limit at least the size of the table, the
\* list returns every non-deleted row exactly once, in ascending start time.
C8_UnfilteredListIsComplete ==
    (IsList /\ NoFilter(res.query) /\ res.query.offset = 0
            /\ res.query.limit >= Cardinality(rows)) =>
        /\ RowsOf(res.data) = Active(rows)
        /\ Len(res.data) = Cardinality(Active(rows))
        /\ \A i, j \in 1..Len(res.data) :
              i < j => res.data[i].start_datetime <= res.data[j].start_datetime

\* the whole table listed: three active rows, not all with one start time, and a
\* soft-deleted row left out
C8_Witness ==
    /\ res.op = "list" /\ res.status = 200
    /\ NoFilter(res.query) /\ res.query.offset = 0 /\ res.query.limit >= Cardinality(rows)
    /\ res.returned = 3
    /\ Cardinality(rows) = 4
    /\ res.data[1].start_datetime < res.data[3].start_datetime

\* s occurs in t, letter case ignored
Contains(t, s) ==
    \E i \in 0..(Len(t) - Len(s)) : LOWER(SubSeq(t, i + 1, i + Len(s))) = LOWER(s)

\* the filter predicate of the specification
Matches(r, q) ==
    /\ q.special = Yes => LOWER(r.special) = Yes
    /\ q.continent # <<>> => LOWER(r.continent) = LOWER(q.continent)
    /\ q.format # <<>> => LOWER(r.format) = LOWER(q.format)
    /\ q.search # <<>> =>
          Contains(r.title, q.search) \/ Contains(r.location, q.search)
             \/ Contains(r.players, q.search)

\* C9: a non-deleted row is listed exactly when every supplied filter matches
\* it: continent and format by case-insensitive equality, search as a
\* case-insensitive substring of title, location or players, special restricting
\* to rows marked special; an unknown continent or format gives no rows.
C9_ListedIffAllFiltersMatch ==
    (IsList /\ res.query.offset = 0 /\ res.query.limit >= Cardinality(rows)) =>
        RowsOf(res.data) = {r \in Active(rows) : Matches(r, res.query)}

(***************************************************************************)
(* Validation of Create.                                                   *)
(***************************************************************************)
MissingOrEmpty(b, f) == ~Has(b, f) \/ b[f] = <<>>

\* u is text that starts with a scheme and a colon, and names a host if the
\* scheme is http
WellFormedUrl(u) ==
    /\ u # JsonNumber
    /\ LET t == Trim(u)
           n == SchemeLen(t)
       IN  /\ n >= 1 /\ Len(t) > n /\ t[n + 1] = ":"
           /\ t[1] = "http" => SkipSlashes(SubSeq(t, n + 2, Len(t))) # <<>>

InvalidBody(b) ==
    \/ MissingOrEmpty(b, "title")
    \/ MissingOrEmpty(b, "url")
    \/ ~WellFormedUrl(b.url)

\* C10: Create fails with a validation error (status 400), inserts no row and
\* leaves the store unchanged whenever the title is missing or empty, the url is
\* missing or empty, or the url is not a well-formed absolute URL.
C10_InvalidCreateRejected ==
    [][\A b \in CreateBodies :
          (Create(b) /\ InvalidBody(b)) =>
              res'.status = 400 /\ rows' = rows /\ seq' = seq]_vars

C12_EmptyUpdateIsRejected ==
    [][\A id \in Ids, b \in Updates :
          (Update(id, b) /\ DOMAIN b \subseteq {"id", "created_at"}) =>
              res'.status = 400 /\ rows' = rows /\ seq' = seq]_vars

\* an Update of an active row was answered 400, a second after the row was written
C12_Witness ==
    /\ res.op = "update" /\ res.status = 400
    /\ \E r \in rows : r.id = res.id /\ r.deleted_at = NULL /\ r.updated_at < now

C14_SoftDeleteOnlyWhenActive ==
    [][\A id \in Ids :
          (SoftDelete(id) \/ CalendarSoftDelete(id)) =>
              IF \E r \in rows : r.id = id /\ r.deleted_at = NULL
              THEN /\ res'.status \in {200, 204}
                   /\ rows' = SoftDeleted(rows, id, now)
              ELSE res'.status = 404 /\ rows' = rows]_vars

\* C15: PermanentDelete removes the row with the id, active or soft-deleted,
\* and fails with NotFoundError (404) when there is no such row; after a
\* successful PermanentDelete no row has the id, no read returns one, and a
\* Restore of the id fails with NotFoundError.
C15_PermanentDeleteRemoves ==
    /\ [][\A id \in Ids :
             /\ PermanentDelete(id) =>
                   IF \E r \in rows : r.id = id
                   THEN res'.status = 200 /\ rows' = {r \in rows : r.id # id}
                   ELSE res'.status = 404 /\ rows' = rows
             /\ (res.op = "permanentDelete" /\ res.id = id /\ res.status = 200
                    /\ Restore(id)) =>
                   res'.status = 404 /\ rows' = rows]_vars
    /\ []((res.op = "permanentDelete" /\ res.status = 200) =>
             \A r \in rows \cup ReadResults(rows, now) : r.id # res.id)

\* row 1 was permanently deleted, row 2 is still stored, and Restore(1) is next
C15_Witness ==
    /\ res.op = "permanentDelete" /\ res.status = 200 /\ res.id = 1
    /\ \A r \in rows : r.id # 1
    /\ \E r \in rows : r.id = 2
    /\ ENABLED Restore(1)

\* C16: Restore of an active row succeeds and changes no row; Restore of a
\* soft-deleted row succeeds; Restore fails with NotFoundError (404) only when
\* no row has the id.
C16_RestoreOfActiveIsNoOp ==
    [][\A id \in Ids :
          Restore(id) =>
              IF \E r \in rows : r.id = id
              THEN /\ res'.status = 200
                   /\ (\E r \in rows : r.id = id /\ r.deleted_at = NULL) => rows' = rows
              ELSE res'.status = 404 /\ rows' = rows]_vars

\* Restore of row 1, which is active and untouched since second 1, was answered
\* 200 at second 2 beside a soft-deleted row 2
C16_Witness ==
    /\ res.op = "restore" /\ res.status = 200 /\ res.id = 1
    /\ now = 2
    /\ \E r \in rows : r.id = 1 /\ r.deleted_at = NULL /\ r.updated_at = 1
    /\ \E r \in rows : r.id = 2 /\ r.deleted_at # NULL

(***************************************************************************)
(* Duplicates.                                                             *)
(***************************************************************************)
\* the answer of GET /api/duplicates lists exactly the groups of two or more
\* active rows that agree on Key, each in ascending created_at order
GroupsBy(Key(_)) ==
    (res.op = "duplicates" /\ res.status = 200) =>
        /\ \A s \in res.data :
              /\ Len(s) >= 2
              /\ \A i \in DOMAIN s : s[i] \in rows /\ s[i].deleted_at = NULL
              /\ \A i, j \in DOMAIN s : i # j => s[i].id # s[j].id
              /\ \A i, j \in DOMAIN s : Key(s[i]) = Key(s[j])
              /\ \A i, j \in DOMAIN s : i < j => s[i].created_at <= s[j].created_at
              /\ \A r \in rows :
                    (r.deleted_at = NULL /\ Key(r) = Key(s[1])) => \E i \in DOMAIN s : s[i] = r
        /\ \A r, q \in rows :
              (r.id # q.id /\ r.deleted_at = NULL /\ q.deleted_at = NULL /\ Key(r) = Key(q)) =>
                  \E s \in res.data : \E i \in DOMAIN s : s[i] = r
        /\ res.total = Cardinality(res.data)

LowerTitleLowerLocationStart(r) == <<LOWER(r.title), LOWER(r.location), r.start_datetime>>

LowerTitleLocationStart(r) == <<LOWER(r.title), r.location, r.start_datetime>>

\* C17 (corrected): FindDuplicates returns exactly the groups of two or more
\* non-deleted records with the same lower-cased title, the same lower-cased
\* location and the identical start time, members in ascending created_at
\* order; soft-deleted records neither appear in nor count toward a group.
C17_DuplicatesByLowerTitleAndLocation == GroupsBy(LowerTitleLowerLocationStart)

\* two active rows whose titles and locations differ by letter case only are
\* listed as one group
C17_Witness ==
    /\ res.op = "duplicates" /\ res.status = 200
    /\ \E s \in res.data :
          /\ Len(s) = 2
          /\ s[1].title # s[2].title /\ s[1].location # s[2].location
          /\ s[1].id = 1 /\ s[2].id = 2

\* C17 as stated: the groups are of records with the same lower-cased title,
\* the identical location and the identical start time; records whose
\* locations differ by letter case only are not in one group.
C17_DuplicatesByIdenticalLocation == GroupsBy(LowerTitleLocationStart)

\* C18: DeleteDuplicates with a mode other than "auto" fails with
\* UnsupportedModeError (status 400), starts no backup and changes no row.
C18_OtherModesAreRejected ==
    [][\A mode \in {"auto", "manual"} :
          (StartDeleteDuplicates(mode) /\ mode # "auto") =>
              /\ res'.op = "deleteDuplicates" /\ res'.status = 400
              /\ UNCHANGED <<rows, seq, files, snaps, calls, names>>]_vars

\* a request with another mode was refused although the table holds
\* duplicates, and no backup file exists
C18_Witness ==
    /\ res.op = "deleteDuplicates" /\ res.status = 400
    /\ DuplicateGroups(rows) # {}
    /\ DOMAIN files = {} /\ snaps = {} /\ calls = {}

(***************************************************************************)
(* Identifiers.                                                            *)
(***************************************************************************)
\* C19: the id a successful Create returns differs from the id of every
\* earlier successful Create, also after a permanent delete and after a
\* restore from an older backup.
C19_CreatedIdsAreFresh ==
    [][\A b \in Bodies \cup OneBody \cup CreateBodies :
          (Create(b) /\ res'.status = 201) => res'.id \notin issued]_vars

(***************************************************************************)
(* Undoing a restore.                                                      *)
(***************************************************************************)
\* C20: after a successful RestoreFromBackup(B), RestoreFromBackup of the
\* "pre-restore" backup that call produced (its snapshot file complete) is
\* accepted and succeeds, and it brings the store back to a content it had while that pre-restore backup was
\* made, the content immediately before the first restore.
C20_RestoreIsRecoverable ==
    [][/\ \A f \in DOMAIN files :
             (res.op = "restoreBackup" /\ res.status = 200 /\ res.backup = f
                 /\ files[f].snap # NoFile /\ StartRestore(f)) => res'.status = 0
       /\ \A c \in calls :
             (RestoreReturns(c) /\ c.target.reason = "pre-restore") =>
                 res'.status = 200 /\ rows' \in seen[c.target]]_vars

(***************************************************************************)
(* Defaults of Create, and the frame of Update.                            *)
(***************************************************************************)
\* C27: a successful Create given no end time stores an end time equal to the
\* stored start time, and the stored start time is the supplied start time or,
\* when none is supplied, the current server time.
C27_EndDefaultsToStart ==
    [][\A b \in Bodies :
          (Create(b) /\ res'.status = 201 /\ ~Has(b, "end_datetime")) =>
              \E r \in rows' \ rows :
                  /\ r.id = res'.id
                  /\ r.end_datetime = r.start_datetime
                  /\ r.start_datetime =
                        IF Has(b, "start_datetime") THEN b.start_datetime ELSE now]_vars

\* at second 2 a Create without start and end time stored a row that starts and
\* ends at second 2, beside a row that was given start time 1
C27_Witness ==
    /\ res.op = "create" /\ res.status = 201
    /\ \E r \in rows :
          r.id = res.id /\ r.created_at = 2 /\ r.start_datetime = 2 /\ r.end_datetime = 2
    /\ \E r \in rows : r.id # res.id /\ r.start_datetime = 1 /\ r.end_datetime = 1

\* C28: Update never changes whether a record is soft-deleted: after a
\* successful Update, whatever the body, the record's deleted_at is NULL and
\* the set of records the normal reads return is the same.
C28_UpdateKeepsDeletedAt ==
    [][\A id \in Ids, b \in Updates :
          (Update(id, b) /\ res'.status = 200) =>
              /\ \A r \in rows' : r.id = id => r.deleted_at = NULL
              /\ {r.id : r \in Active(rows')} = {r.id : r \in Active(rows)}]_vars

(***************************************************************************)
(* The process after a restore.                                            *)
(***************************************************************************)
\* C29: after RestoreFromBackup returned success the store stays usable in
\* the same process: the next Create of a valid body succeeds, the next
\* SoftDelete is answered 200 or 404 as the restored rows say, and the next
\* CreateBackup is accepted.
C29_StoreUsableAfterRestore ==
    [][(res.op = "restoreBackup" /\ res.status = 200) =>
          /\ \A b \in OneBody : Create(b) => res'.status = 201
          /\ \A id \in EventIds :
                SoftDelete(id) =>
                    res'.status = IF \E r \in Active(rows) : r.id = id THEN 200 ELSE 404
          /\ \A reason \in {"manual"} : StartBackup(reason) => res'.status = 0]_vars

(***************************************************************************)
(* What createBackup reports and records.                                  *)
(***************************************************************************)
\* the step in which POST /api/backups, suspended as call c, runs to its end
BackupReturns(c) == c.kind = "backup" /\ \E ok \in BOOLEAN : TimerFires(c, ok)

\* C21: CreateBackup reports success only for a backup whose snapshot was
\* produced and whose sidecar is written, and after a CreateBackup that
\* reported failure no sidecar of that backup exists, complete or partial.
C21_BackupFailureIsReportedAndClean ==
    [][\A c \in calls :
          BackupReturns(c) =>
              IF res'.status = 200
              THEN files'[c.name].snap # NoFile /\ files'[c.name].meta \notin {NoFile, Corrupt}
              ELSE files'[c.name].meta = NoFile]_vars

\* C22: when CreateBackup returns success for a backup whose snapshot is
\* complete, the event count in the sidecar is the number of non-deleted rows
\* in the snapshot, whatever requests were served in between.
C22_EventCountIsOfTheSnapshot ==
    [][\A c \in calls :
          (BackupReturns(c) /\ res'.status = 200 /\ files[c.name].snap # NoFile) =>
              files'[c.name].meta.eventCount = Cardinality(Active(files'[c.name].snap.rows))]_vars

(***************************************************************************)
(* Backup and restore under concurrent requests.                           *)
(***************************************************************************)
\* C26: a RestoreFromBackup never closes or overwrites the live store while a
\* CreateBackup of another request is between starting its snapshot and
\* writing its sidecar: when the restore closes the handle, no handler is
\* suspended in createBackup.
C26_RestoreExcludesRunningBackups ==
    [][\A c \in calls :
          (RestoreReturns(c) /\ handle' = "closed") => calls \ {c} = {}]_vars

(***************************************************************************)
(* The backups directory.                                                  *)
(***************************************************************************)
\* C23: ListBackups never fails because of a sidecar.  It answers 200 with one
\* entry per snapshot file: every complete snapshot is listed once, nothing is
\* listed that is not a snapshot file, an entry whose sidecar is missing or
\* corrupt carries the values of the file system, and the entries are in
\* descending order of timestamp.
C23_ListBackupsToleratesSidecars ==
    [][ListBackups =>
          LET l == res'.data
          IN  /\ res'.status = 200 /\ res'.total = Len(l)
              /\ \A i, j \in DOMAIN l : i # j => l[i].filename # l[j].filename
              /\ \A n \in DOMAIN files :
                    files[n].snap # NoFile => \E i \in DOMAIN l : l[i].filename = n
              /\ \A i \in DOMAIN l :
                    /\ l[i].filename \in DOMAIN files
                    /\ files[l[i].filename].snap # NoFile \/ l[i].filename \in snaps
              /\ \A i \in DOMAIN l :
                    LET f == files[l[i].filename]
                    IN  IF f.meta \in {NoFile, Corrupt}
                        THEN /\ l[i].reason = "unknown"
                             /\ l[i].timestamp = IF f.snap = NoFile THEN now ELSE f.mtime
                        ELSE /\ l[i].reason = f.meta.reason
                             /\ l[i].timestamp = f.meta.timestamp
              /\ \A i, j \in DOMAIN l : i < j => l[i].timestamp >= l[j].timestamp]_vars

\* two snapshots are listed, the newer first; the sidecar of one is corrupt and
\* its entry carries the fallback values
C23_Witness ==
    /\ res.op = "listBackups" /\ res.status = 200
    /\ Len(res.data) = 2
    /\ res.data[1].timestamp > res.data[2].timestamp
    /\ \E i \in 1..2 :
          /\ res.data[i].reason = "unknown"
          /\ FileOf(res.data[i].filename).meta = Corrupt
    /\ \E i \in 1..2 : res.data[i].reason = "manual"

\* C24: DeleteBackup(name) succeeds whether both, one or neither of the
\* snapshot and the sidecar exist; afterwards neither exists and no listing
\* names it; every other backup and the live store are unchanged.
C24_DeleteBackupIsIdempotent ==
    [][\A n \in BackupNames :
          DeleteBackup(n) =>
              /\ res'.status = 200
              /\ FileOf(n)' = Absent
              /\ \A l \in Listings' : \A i \in DOMAIN l : l[i].filename # n
              /\ \A m \in DOMAIN files \ {n} : m \in DOMAIN files' /\ files'[m] = files[m]
              /\ DOMAIN files' \subseteq DOMAIN files
              /\ rows' = rows /\ seq' = seq]_vars

\* backup 1 was deleted; backup 2 still has its snapshot and its sidecar, and
\* the store holds an event
C24_Witness ==
    /\ res.op = "deleteBackup" /\ res.status = 200 /\ res.backup.ts = 1
    /\ FileOf(res.backup) = Absent
    /\ \E m \in DOMAIN files : m.ts = 2 /\ files[m].snap # NoFile /\ files[m].meta \notin {NoFile, Corrupt}
    /\ rows # {}

\* C25: every successful Create, Update, SoftDelete, PermanentDelete and
\* Restore of the admin API invokes regenerateJsonFiles(), which starts one
\* more export process; a process that ends with an error changes neither the
\* response that was given nor the table.
C25_MutationsInvokeExportHook ==
    [][/\ (/\ \/ \E b \in OneBody : Create(b)
              \/ \E id \in EventIds, b \in FewUpdates : Update(id, b)
              \/ \E id \in EventIds : SoftDelete(id)
              \/ \E id \in EventIds : PermanentDelete(id)
              \/ \E id \in EventIds : Restore(id)
           /\ res'.status \in {200, 201})
          => /\ res'.hook
             /\ runs' = runs (+) SetToBag({Waiting})
       /\ \A p \in BagToSet(runs) :
             ExportFails(p) => UNCHANGED <<rows, seq, res, exported>>]_vars

\* event 1 was created with 201 and is stored; the export process that request
\* started has ended without writing events.json
C25_Witness ==
    /\ res.op = "create" /\ res.status = 201 /\ res.hook
    /\ \E r \in rows : r.id = res.id /\ r.deleted_at = NULL
    /\ runs = EmptyBag
    /\ exported = {}

\* C30: an export process that is the last one to finish never replaces an
\* events.json that holds exactly the non-deleted rows by older data, so that
\* once every process has finished events.json holds the non-deleted rows.
C30_LastExportIsCurrent ==
    [][\A p \in BagToSet(runs) :
          (/\ ExportWrites(p)
           /\ runs' = EmptyBag
           /\ exported # {}
           /\ exported = Active(rows))
          => exported' = Active(rows)]_vars

====
